---- MODULE Spec2Model ----
(***************************************************************************)
(* Peak-window charge integration of energy-deposit/charge_collected.py:   *)
(* main() scans, record by record and tick by tick, the median-subtracted  *)
(* waveforms of three adjacent channels (low, center, high), opens a       *)
(* window when the center channel exceeds THRESHOLD, extends it by a       *)
(* prefix/suffix margin, optionally gates the close on the induction       *)
(* planes, and skips ticks on which all three channels are active.         *)
(*                                                                         *)
(* A waveform array wfs of shape (num_frames, 3) is a sequence of rows     *)
(* <<low, center, high>>; tick t (0-based, as in the code) is wfs[t+1] and *)
(* channel column c (0-based) is row[c+1].                                 *)
(***************************************************************************)
EXTENDS Integers, Sequences, FiniteSets, TLC

VARIABLES
    cfg,            \* [prefix, suffix, induction]: PREFIX, SUFFIX, args.induction
    pc,             \* "record": at the head of the record loop; "scan": in the
                    \* tick loop; "done": after the record loop
    wfs,            \* the current record's median-subtracted triplet
    ind1_wfs,       \* induction plane 1 (read only when cfg.induction)
    ind2_wfs,       \* induction plane 2 (read only when cfg.induction)
    time,           \* the next tick of the tick loop
    prefix,         \* the local prefix (overwritten by the clamp, restored)
    suffix,         \* the local suffix (overwritten by the clamp, restored)
    low_sum, center_sum, high_sum, total_sum,
    low_areas, center_areas, high_areas, total_areas,
    mismatch, muon_count, induction_skip,
    rec_count,      \* records the loop has taken so far
    num_events,     \* len(records) - mismatch, set after the loop (-1 before)
    ticks_left,     \* input budget: ticks the file may still deliver
    trace,          \* history: the branch each tick of this record has taken
    win,            \* history: the ticks summed into the running sums
    cover,          \* history: per pulse appended in this record, its ticks
    slice,          \* history: <<start, stop>> of the last slice taken of wfs
    base,           \* history: len(center_areas) when this record began
    carried,        \* history: the sums the record before this one left behind
    tally0,         \* history: the three counters when this record began
    outcomes,       \* history: per record taken, "ok" or "fail" (ValueError)
    ret,            \* the value check_induction returned, when called alone
    ungated,        \* history: what the run without --induction produced
    sum_all,        \* the locals of sum-all/sum_all.py main()
    running_sum,    \* the locals of running-sum/running_sum.py main()
    sum_threshold,  \* the locals of sum_threshold.py zero_sum_events()
    display_cosmic  \* the locals of display-cosmic/display_cosmic.py main()

sums  == <<low_sum, center_sum, high_sum, total_sum>>
areas == <<low_areas, center_areas, high_areas, total_areas>>
tally == <<mismatch, muon_count, induction_skip>>
hist  == <<trace, win, cover, slice, base, carried, tally0, outcomes>>
scripts == <<sum_all, running_sum, sum_threshold, display_cosmic>>
scan  == <<cfg, wfs, ind1_wfs, ind2_wfs, time, prefix, suffix, sums, areas,
           tally, rec_count, num_events, ticks_left, hist, ret, ungated>>
vars  == <<pc, scan, scripts>>

----------------------------------------------------------------------------
(* Program constants. *)
PREFIX == 5
SUFFIX == 5
THRESHOLD == 100
INDUCTION_THRESHOLD == 40
INDUCTION_WINDOW == 15
LOW_THRESHOLD == 63          \* sum_threshold.py
HIGH_THRESHOLD == 77         \* sum_threshold.py
CHANNEL_THRESHOLD == 20      \* display_cosmic.py

(* Bounds of the model. *)
MaxTicks == 4       \* ticks delivered by the file, over all its records
IndFrames == 18     \* frames of the planes check_induction is called on alone
SumFrames == 2      \* sum_all: rows of the summed array (adcs.shape[0])
SumRecords == 3     \* sum_all: records in the file
WfLimit == 3        \* running_sum: ticks kept of the waveform (the [:800])
ZeroFrames == 2     \* zero_sum_events: frames of a record
ZeroRecords == 2    \* zero_sum_events: records in the list
CosmicRecords == 3  \* display_cosmic: records in the file

adc_threshold == THRESHOLD

----------------------------------------------------------------------------
(* numpy on a (num_frames, 3) array. *)

Min2(a, b) == IF a < b THEN a ELSE b
Max2(a, b) == IF a > b THEN a ELSE b

Sample(w, t, ch) == w[t + 1][ch + 1]

\* A slice bound i of a[i:j] on an axis of length n: a negative bound counts
\* from the end, and every bound is clipped to [0, n].
PyBound(i, n) == IF i < 0 THEN Max2(i + n, 0) ELSE Min2(i, n)

\* The ticks of w[start:stop], in order.
SliceTicks(w, start, stop) ==
    LET lo == PyBound(start, Len(w))
        hi == PyBound(stop, Len(w))
    IN  [k \in 1..Max2(hi - lo, 0) |-> lo + k - 1]

RECURSIVE SumTicks(_, _, _)
SumTicks(w, ts, ch) ==
    IF ts = <<>> THEN 0
    ELSE Sample(w, Head(ts), ch) + SumTicks(w, Tail(ts), ch)

\* np.sum(w[start:stop, ch])
SliceSum(w, start, stop, ch) == SumTicks(w, SliceTicks(w, start, stop), ch)

\* Variant: the total is taken over the center column alone.
SliceSumAllCenter(w, start, stop) == SliceSum(w, start, stop, 1)

\* np.sum(w[start:stop, :])
SliceSumAll(w, start, stop) ==
    SliceSum(w, start, stop, 0) + SliceSum(w, start, stop, 1)
        + SliceSum(w, start, stop, 2)

\* np.sum(w[t, :])
RowSum(w, t) == Sample(w, t, 0) + Sample(w, t, 1) + Sample(w, t, 2)

\* The entries of w[start:stop] (all columns).
SliceEntries(w, start, stop) ==
    LET ts == SliceTicks(w, start, stop)
    IN  {Sample(w, ts[k], ch) : k \in DOMAIN ts, ch \in 0..2}

SetMax(S) == CHOOSE x \in S : \A y \in S : y <= x
SetMin(S) == CHOOSE x \in S : \A y \in S : x <= y

\* The k-th smallest entry of a one-channel array (k from 1).
KthSmallest(col, k) ==
    CHOOSE x \in {col[i] : i \in DOMAIN col} :
        /\ Cardinality({i \in DOMAIN col : col[i] < x}) < k
        /\ k <= Cardinality({i \in DOMAIN col : col[i] <= x})

\* np.floor(np.median(col)): the middle entry, or the mean of the two middle
\* entries rounded down.
MedianFloor(col) ==
    LET n == Len(col) IN
    IF n % 2 = 1 THEN KthSmallest(col, (n + 1) \div 2)
    ELSE (KthSmallest(col, n \div 2) + KthSmallest(col, n \div 2 + 1)) \div 2

\* (adcs - np.floor(np.median(adcs, axis=0))).astype('int'), one channel
median_subtraction(col) == [k \in DOMAIN col |-> col[k] - MedianFloor(col)]

Abs(x) == IF x < 0 THEN -x ELSE x

\* a + b, element by element
VecAdd(a, b) == [k \in DOMAIN a |-> a[k] + b[k]]

\* a[:n]
Head_n(a, n) == SubSeq(a, 1, Min2(n, Len(a)))

----------------------------------------------------------------------------
(* The helpers of charge_collected.py. *)

\* Variant: the comparison is the wrong way round.
check_muon_inverted(row) == \A c \in 1..3 : row[c] < THRESHOLD

check_muon(row) == \A c \in 1..3 : row[c] > THRESHOLD

\* early_time = time - INDUCTION_WINDOW; if early_time < 0: early_time = 0
early_time(t) == IF t - INDUCTION_WINDOW < 0 THEN 0 ELSE t - INDUCTION_WINDOW

\* Variant: a sample equal to the induction threshold counts as active.
check_induction_nonstrict(i1, i2, t) ==
    LET ind1_window == SliceEntries(i1, early_time(t), t + 1)
        ind2_window == SliceEntries(i2, early_time(t), t + 1)
    IN  /\ SetMax(ind1_window) >= INDUCTION_THRESHOLD
        /\ (-1) * SetMin(ind2_window) >= INDUCTION_THRESHOLD

check_induction(i1, i2, t) ==
    LET ind1_window == SliceEntries(i1, early_time(t), t + 1)
        ind2_window == SliceEntries(i2, early_time(t), t + 1)
    IN  /\ SetMax(ind1_window) > INDUCTION_THRESHOLD
        /\ (-1) * SetMin(ind2_window) > INDUCTION_THRESHOLD

\* np.max / np.min of a window without frames raises ValueError; `and` does
\* not evaluate np.min when the np.max comparison is already false.
InductionRaises(i1, i2, t) ==
    LET ind1_window == SliceEntries(i1, early_time(t), t + 1)
        ind2_window == SliceEntries(i2, early_time(t), t + 1)
    IN  IF ind1_window = {} THEN TRUE
        ELSE SetMax(ind1_window) > INDUCTION_THRESHOLD /\ ind2_window = {}

\* Variant: the comparison lets a sample equal to the threshold through.
AboveThresholdOrEqual(w, t) == Sample(w, t, 1) >= adc_threshold

\* wfs[time, 1] > adc_threshold
AboveThreshold(w, t) == Sample(w, t, 1) > adc_threshold

\* The test the scan uses for "no window is open": center_sum == 0.
NoWindow(csum) == csum = 0

\* Variant: the prefix is used unclamped.
ClampPrefixNone(p, t) == p

\* if time < prefix: prefix = time
ClampPrefix(p, t) == IF t < p THEN t ELSE p

\* Variant: the suffix is used unclamped.
ClampSuffixNone(s, n, t) == s

\* if wfs.shape[0] < time+suffix: suffix = wfs.shape[0] - time
ClampSuffix(s, n, t) == IF n < t + s THEN n - t ELSE s

\* Variant: the opening slice stops short of the opening tick.
PrefixSliceExclusive(p, t) == <<t - p, t>>

\* wfs[time-prefix:time+1, ...]: the <<start, stop>> of the opening slice
PrefixSlice(p, t) == <<t - p, t + 1>>

\* wfs[time:time+suffix, ...]: the <<start, stop>> of the closing slice
SuffixSlice(s, t) == <<t, t + s>>

\* Variant: only center_sum is cleared at the top of a record.
InitSumsCenterOnly == <<low_sum, 0, high_sum, total_sum>>

\* Variant: the sums are not cleared at the top of a record.
InitSumsKeep == sums

\* Variant: the clamped prefix is left in place.
RestoredPrefixMissing(clamped) == clamped

\* prefix = PREFIX after the opening sums
RestoredPrefix(clamped) == cfg.prefix

\* suffix = SUFFIX after the closing sums
RestoredSuffix(clamped) == cfg.suffix

\* low_sum = 0 ... total_sum = 0 at the top of a record
InitSums == <<0, 0, 0, 0>>

\* Variant: the reset after a close attempt is missing.
ResetSumsKeep == sums

\* ## Reset
ResetSums == <<0, 0, 0, 0>>

----------------------------------------------------------------------------
(* The inputs: what data.extract and median_subtraction hand to the scan. *)

\* Rows of a triplet: a quiet tick with center exactly at THRESHOLD, a pulse
\* tick with center at THRESHOLD + 1, a tick with all three channels active,
\* and an undershoot tick.
TickRows == {<<0, 100, 0>>, <<1, 101, 2>>, <<150, 150, 150>>, <<0, -101, 0>>}

Waveforms(n) == [1..n -> TickRows]

Triplet(low, center, high) ==
    [t \in 1..Len(center) |-> <<low[t], center[t], high[t]>>]

Zeros(n) == [t \in 1..n |-> 0]

\* low = center = high = [0,0,0,150,150,0,0]
ScenarioA ==
    LET c == <<0, 0, 0, 150, 150, 0, 0>> IN Triplet(c, c, c)

\* center = [0,50,120,130,40,0,0], low = high = zeros
ScenarioB ==
    Triplet(Zeros(7), <<0, 50, 120, 130, 40, 0, 0>>, Zeros(7))

\* center = [50,150,150,150]: the record ends inside the pulse
ScenarioTail ==
    Triplet(Zeros(4), <<50, 150, 150, 150>>, Zeros(4))

\* a pulse that starts at tick 2 and lasts to the last tick but one
ScenarioClamp ==
    Triplet(<<1, 2, 3, 4, 5>>, <<10, 20, 150, 160, 30>>, <<6, 7, 8, 9, 10>>)

Scenarios == {ScenarioA, ScenarioB, ScenarioTail, ScenarioClamp}

\* An induction plane of n frames, quiet but for frame k (none when k = 0),
\* whose middle channel holds v.
IndPlane(n, k, v) ==
    [t \in 1..n |-> IF t = k THEN <<0, v, 0>> ELSE <<0, 0, 0>>]

\* Planes of as many frames as the triplet, and a pair without frames (the
\* induction channels are extracted on their own).
IndPairs(n) ==
    {<<IndPlane(n, k1, INDUCTION_THRESHOLD + 1),
       IndPlane(n, k2, (-1) * INDUCTION_THRESHOLD - 1)>> :
        k1 \in 0..n, k2 \in 0..1}
    \cup {<< <<>>, <<>> >>}

\* PREFIX/SUFFIX as configured, and a short margin that the clamp leaves alone.
Configs ==
    {[prefix |-> m[1], suffix |-> m[2], induction |-> g] :
        m \in {<<PREFIX, SUFFIX>>, <<1, 1>>}, g \in BOOLEAN}

----------------------------------------------------------------------------
(* The other scripts of the repository, before they are run. *)

NoRun == [areas |-> <<<<>>, <<>>, <<>>, <<>>>>, muon_count |-> 0, trace |-> <<>>]

SumAllIdle ==
    [records |-> <<>>, use_abs |-> FALSE, next |-> 1, bound |-> FALSE,
     tmp_adc |-> <<>>, adcs |-> <<>>, mismatch |-> 0, num_events |-> -1]

RunningSumIdle == [wf |-> <<>>, original_wf |-> <<>>, idx |-> 1]

SumThresholdIdle ==
    [records |-> <<>>, use_abs |-> FALSE, idx |-> 0, summed_events |-> <<>>,
     event_count |-> 0]

DisplayCosmicIdle ==
    [records |-> <<>>, cosm_order |-> 1, trig_id |-> 0, trig_cnt |-> 0,
     plotted |-> <<>>]

ScriptsIdle ==
    /\ sum_all = SumAllIdle
    /\ running_sum = RunningSumIdle
    /\ sum_threshold = SumThresholdIdle
    /\ display_cosmic = DisplayCosmicIdle

----------------------------------------------------------------------------
(* main(): the state before the record loop. *)

Init ==
    /\ cfg \in Configs
    /\ pc = "record"
    /\ wfs = <<>>
    /\ ind1_wfs = <<>>
    /\ ind2_wfs = <<>>
    /\ time = 0
    /\ prefix = cfg.prefix
    /\ suffix = cfg.suffix
    /\ low_sum = 0 /\ center_sum = 0 /\ high_sum = 0 /\ total_sum = 0
    /\ low_areas = <<>> /\ center_areas = <<>>
    /\ high_areas = <<>> /\ total_areas = <<>>
    /\ mismatch = 0 /\ muon_count = 0 /\ induction_skip = 0
    /\ rec_count = 0
    /\ num_events = -1
    /\ ticks_left = MaxTicks
    /\ trace = <<>> /\ win = <<>> /\ cover = <<>>
    /\ slice = <<0, 0>>
    /\ base = 0
    /\ carried = <<0, 0, 0, 0>>
    /\ tally0 = <<0, 0, 0>>
    /\ outcomes = <<>>
    /\ ret = FALSE
    /\ ungated = NoRun
    /\ ScriptsIdle

SetSums(s) ==
    /\ low_sum' = s[1]
    /\ center_sum' = s[2]
    /\ high_sum' = s[3]
    /\ total_sum' = s[4]

\* The four sums with np.sum of wfs[start:stop] added, column by column.
AddSlice(start, stop) ==
    <<low_sum + SliceSum(wfs, start, stop, 0),
      center_sum + SliceSum(wfs, start, stop, 1),
      high_sum + SliceSum(wfs, start, stop, 2),
      total_sum + SliceSumAll(wfs, start, stop)>>

\* The four sums with the samples of tick t added.
AddTick(t) ==
    <<low_sum + Sample(wfs, t, 0),
      center_sum + Sample(wfs, t, 1),
      high_sum + Sample(wfs, t, 2),
      total_sum + RowSum(wfs, t)>>

\* Variant: the sums are inserted at the head of the lists.
AppendAreasFront(s) ==
    /\ low_areas' = <<s[1]>> \o low_areas
    /\ center_areas' = <<s[2]>> \o center_areas
    /\ high_areas' = <<s[3]>> \o high_areas
    /\ total_areas' = <<s[4]>> \o total_areas

\* Variant: only center_areas is appended to.
AppendAreasCenterOnly(s) ==
    /\ center_areas' = Append(center_areas, s[2])
    /\ UNCHANGED <<low_areas, high_areas, total_areas>>

AppendAreas(s) ==
    /\ low_areas' = Append(low_areas, s[1])
    /\ center_areas' = Append(center_areas, s[2])
    /\ high_areas' = Append(high_areas, s[3])
    /\ total_areas' = Append(total_areas, s[4])

\* The record loop takes the next record: extraction and median subtraction
\* succeed, the sums start at zero.
StartRecord ==
    /\ pc = "record"
    /\ \E w \in UNION {Waveforms(n) : n \in 1..ticks_left}
               \cup {s \in Scenarios : rec_count = 0 /\ ticks_left = MaxTicks} :
          /\ wfs' = w
          /\ ticks_left' = IF w \in Scenarios THEN 0 ELSE ticks_left - Len(w)
          /\ IF cfg.induction
                THEN \E ip \in IndPairs(Len(w)) :
                        ind1_wfs' = ip[1] /\ ind2_wfs' = ip[2]
                ELSE UNCHANGED <<ind1_wfs, ind2_wfs>>
    /\ SetSums(InitSums)
    /\ time' = 0
    /\ pc' = "scan"
    /\ rec_count' = rec_count + 1
    /\ trace' = <<>> /\ win' = <<>> /\ cover' = <<>>
    /\ base' = Len(center_areas)
    /\ carried' = sums
    /\ tally0' = tally
    /\ UNCHANGED <<scripts, ungated, ret, cfg, prefix, suffix, areas, tally, num_events, slice,
                   outcomes>>

\* Variant: no except clause, the ValueError ends the record loop.
ExtractFailsAborts ==
    /\ pc = "record"
    /\ ticks_left >= 1
    /\ ticks_left' = ticks_left - 1
    /\ pc' = "done"
    /\ rec_count' = rec_count + 1
    /\ outcomes' = Append(outcomes, "fail")
    /\ UNCHANGED <<scripts, ungated, ret, cfg, wfs, ind1_wfs, ind2_wfs, time, prefix, suffix, sums,
                   areas, tally, num_events, trace, win, cover, slice, base,
                   carried, tally0>>

\* data.extract raises ValueError: the record is tallied as a mismatch.
ExtractFails ==
    /\ pc = "record"
    /\ ticks_left >= 1
    /\ ticks_left' = ticks_left - 1
    /\ mismatch' = mismatch + 1
    /\ rec_count' = rec_count + 1
    /\ outcomes' = Append(outcomes, "fail")
    /\ UNCHANGED <<scripts, ungated, ret, cfg, pc, wfs, ind1_wfs, ind2_wfs, time, prefix, suffix,
                   sums, areas, muon_count, induction_skip, num_events, trace,
                   win, cover, slice, base, carried, tally0>>

Scanning == pc = "scan" /\ time < Len(wfs)

\* Variant: a tick with all three channels active also drops the open window.
MuonTickResets ==
    /\ Scanning
    /\ check_muon(wfs[time + 1])
    /\ muon_count' = muon_count + 1
    /\ SetSums(<<0, 0, 0, 0>>)
    /\ win' = <<>>
    /\ time' = time + 1
    /\ trace' = Append(trace, "muon")
    /\ UNCHANGED <<scripts, ungated, ret, cfg, pc, wfs, ind1_wfs, ind2_wfs, prefix, suffix, areas,
                   mismatch, induction_skip, rec_count, num_events, ticks_left,
                   cover, slice, base, carried, tally0, outcomes>>

\* if check_muon(wfs[time, :]): muon_count += 1; continue
MuonTick ==
    /\ Scanning
    /\ check_muon(wfs[time + 1])
    /\ muon_count' = muon_count + 1
    /\ time' = time + 1
    /\ trace' = Append(trace, "muon")
    /\ UNCHANGED <<scripts, ungated, ret, cfg, pc, wfs, ind1_wfs, ind2_wfs, prefix, suffix, sums, areas,
                   mismatch, induction_skip, rec_count, num_events, ticks_left,
                   win, cover, slice, base, carried, tally0, outcomes>>

\* ## Start New Window Case
OpenWindow ==
    /\ Scanning
    /\ ~check_muon(wfs[time + 1])
    /\ AboveThreshold(wfs, time)
    /\ NoWindow(center_sum)
    /\ LET p  == ClampPrefix(prefix, time)
           sl == PrefixSlice(p, time) IN
          /\ SetSums(AddSlice(sl[1], sl[2]))
          /\ win' = win \o SliceTicks(wfs, sl[1], sl[2])
          /\ slice' = sl
          /\ prefix' = RestoredPrefix(p)
    /\ time' = time + 1
    /\ trace' = Append(trace, "open")
    /\ UNCHANGED <<scripts, ungated, ret, cfg, pc, wfs, ind1_wfs, ind2_wfs, suffix, areas, tally,
                   rec_count, num_events, ticks_left, cover, base, carried, tally0, outcomes>>

\* ## Continue Window Case
ContinueWindow ==
    /\ Scanning
    /\ ~check_muon(wfs[time + 1])
    /\ AboveThreshold(wfs, time)
    /\ ~NoWindow(center_sum)
    /\ SetSums(AddTick(time))
    /\ win' = Append(win, time)
    /\ time' = time + 1
    /\ trace' = Append(trace, "continue")
    /\ UNCHANGED <<scripts, ungated, ret, cfg, pc, wfs, ind1_wfs, ind2_wfs, prefix, suffix, areas, tally,
                   rec_count, num_events, ticks_left, cover, slice, base, carried, tally0, outcomes>>

\* Variant: the scan goes on after the last tick of the closing slice.
CloseAndAppendSkips ==
    /\ LET sf == ClampSuffix(suffix, Len(wfs), time)
           sl == SuffixSlice(sf, time) IN
          /\ AppendAreas(AddSlice(sl[1], sl[2]))
          /\ cover' = Append(cover, win \o SliceTicks(wfs, sl[1], sl[2]))
          /\ slice' = sl
          /\ suffix' = RestoredSuffix(sf)
          /\ time' = time + sf
    /\ SetSums(ResetSums)
    /\ win' = <<>>
    /\ trace' = Append(trace, "close")

\* The closing sums, the append to the four lists and the reset, as both
\* closing branches do them.
CloseAndAppend ==
    /\ LET sf == ClampSuffix(suffix, Len(wfs), time)
           sl == SuffixSlice(sf, time) IN
          /\ AppendAreas(AddSlice(sl[1], sl[2]))
          /\ cover' = Append(cover, win \o SliceTicks(wfs, sl[1], sl[2]))
          /\ slice' = sl
          /\ suffix' = RestoredSuffix(sf)
    /\ SetSums(ResetSums)
    /\ win' = <<>>
    /\ time' = time + 1
    /\ trace' = Append(trace, "close")

\* ## End Window Case, without the induction coincidence
CloseWindow ==
    /\ Scanning
    /\ ~check_muon(wfs[time + 1])
    /\ ~AboveThreshold(wfs, time)
    /\ ~NoWindow(center_sum)
    /\ ~cfg.induction
    /\ CloseAndAppend
    /\ UNCHANGED <<scripts, ungated, ret, cfg, pc, wfs, ind1_wfs, ind2_wfs, prefix, tally, rec_count,
                   num_events, ticks_left, base, carried, tally0, outcomes>>

\* Variant: the gated branch appends the sums without the closing slice.
CloseGatedNoSuffix ==
    /\ Scanning
    /\ ~check_muon(wfs[time + 1])
    /\ ~AboveThreshold(wfs, time)
    /\ ~NoWindow(center_sum)
    /\ cfg.induction
    /\ ~InductionRaises(ind1_wfs, ind2_wfs, time)
    /\ check_induction(ind1_wfs, ind2_wfs, time)
    /\ AppendAreas(sums)
    /\ cover' = Append(cover, win)
    /\ SetSums(ResetSums)
    /\ win' = <<>>
    /\ time' = time + 1
    /\ trace' = Append(trace, "close")
    /\ UNCHANGED <<scripts, ungated, ret, cfg, pc, wfs, ind1_wfs, ind2_wfs, prefix,
                   suffix, slice, tally, rec_count, num_events, ticks_left, base,
                   carried, tally0, outcomes>>

\* ## End Window Case, the induction planes coincide
CloseGated ==
    /\ Scanning
    /\ ~check_muon(wfs[time + 1])
    /\ ~AboveThreshold(wfs, time)
    /\ ~NoWindow(center_sum)
    /\ cfg.induction
    /\ ~InductionRaises(ind1_wfs, ind2_wfs, time)
    /\ check_induction(ind1_wfs, ind2_wfs, time)
    /\ CloseAndAppend
    /\ UNCHANGED <<scripts, ungated, ret, cfg, pc, wfs, ind1_wfs, ind2_wfs, prefix, tally, rec_count,
                   num_events, ticks_left, base, carried, tally0, outcomes>>

\* ## End Window Case, no coincidence: induction_skip += 1 and the reset
RejectWindow ==
    /\ Scanning
    /\ ~check_muon(wfs[time + 1])
    /\ ~AboveThreshold(wfs, time)
    /\ ~NoWindow(center_sum)
    /\ cfg.induction
    /\ ~InductionRaises(ind1_wfs, ind2_wfs, time)
    /\ ~check_induction(ind1_wfs, ind2_wfs, time)
    /\ induction_skip' = induction_skip + 1
    /\ SetSums(ResetSums)
    /\ win' = <<>>
    /\ time' = time + 1
    /\ trace' = Append(trace, "reject")
    /\ UNCHANGED <<scripts, ungated, ret, cfg, pc, wfs, ind1_wfs, ind2_wfs, prefix, suffix, areas,
                   mismatch, muon_count, rec_count, num_events, ticks_left, cover,
                   slice, base, carried, tally0, outcomes>>

\* ## End Window Case, check_induction raises ValueError: the except clause
\* tallies the record as a mismatch and the record loop goes on.
InductionFails ==
    /\ Scanning
    /\ ~check_muon(wfs[time + 1])
    /\ ~AboveThreshold(wfs, time)
    /\ ~NoWindow(center_sum)
    /\ cfg.induction
    /\ InductionRaises(ind1_wfs, ind2_wfs, time)
    /\ mismatch' = mismatch + 1
    /\ pc' = "record"
    /\ outcomes' = Append(outcomes, "fail")
    /\ UNCHANGED <<scripts, ungated, ret, cfg, wfs, ind1_wfs, ind2_wfs, time, prefix, suffix, sums,
                   areas, muon_count, induction_skip, rec_count, num_events,
                   ticks_left, trace, win, cover, slice, base, carried, tally0>>

\* Neither branch of the if/elif is taken.
IdleTick ==
    /\ Scanning
    /\ ~check_muon(wfs[time + 1])
    /\ ~AboveThreshold(wfs, time)
    /\ NoWindow(center_sum)
    /\ time' = time + 1
    /\ trace' = Append(trace, "idle")
    /\ UNCHANGED <<scripts, ungated, ret, cfg, pc, wfs, ind1_wfs, ind2_wfs, prefix, suffix, sums, areas,
                   tally, rec_count, num_events, ticks_left, win, cover, slice,
                   base, carried, tally0, outcomes>>

\* range(wfs.shape[0]) is exhausted: back to the head of the record loop.
EndRecord ==
    /\ pc = "scan"
    /\ time = Len(wfs)
    /\ pc' = "record"
    /\ outcomes' = Append(outcomes, "ok")
    /\ UNCHANGED <<scripts, ungated, ret, cfg, wfs, ind1_wfs, ind2_wfs, time, prefix, suffix, sums,
                   areas, tally, rec_count, num_events, ticks_left, trace, win,
                   cover, slice, base, carried, tally0>>

\* The record loop is exhausted: num_events = len(records) - mismatch.
Finish ==
    /\ pc = "record"
    /\ pc' = "done"
    /\ num_events' = rec_count - mismatch
    /\ UNCHANGED <<scripts, ungated, ret, cfg, wfs, ind1_wfs, ind2_wfs, time, prefix, suffix, sums, areas,
                   tally, rec_count, ticks_left, hist>>

----------------------------------------------------------------------------
(* check_induction called on its own. *)

\* A plane of n frames, quiet but for frame k (none when k = 0), whose channel
\* column c holds v.
IndPlaneAt(n, k, c, v) ==
    [t \in 1..n |-> IF t = k THEN [j \in 1..3 |-> IF j = c THEN v ELSE 0]
                             ELSE <<0, 0, 0>>]

InitInduction ==
    /\ cfg = [prefix |-> PREFIX, suffix |-> SUFFIX, induction |-> TRUE]
    /\ pc = "call"
    /\ wfs = <<>>
    /\ ind1_wfs \in {IndPlaneAt(IndFrames, k, c, v) :
                        k \in 0..IndFrames, c \in 1..3,
                        v \in {INDUCTION_THRESHOLD, INDUCTION_THRESHOLD + 1}}
    /\ ind2_wfs \in {IndPlaneAt(IndFrames, k, 2, (-1) * v) :
                        k \in 0..IndFrames,
                        v \in {INDUCTION_THRESHOLD, INDUCTION_THRESHOLD + 1}}
    /\ time \in 0..(IndFrames - 1)
    /\ prefix = cfg.prefix
    /\ suffix = cfg.suffix
    /\ low_sum = 0 /\ center_sum = 0 /\ high_sum = 0 /\ total_sum = 0
    /\ low_areas = <<>> /\ center_areas = <<>>
    /\ high_areas = <<>> /\ total_areas = <<>>
    /\ mismatch = 0 /\ muon_count = 0 /\ induction_skip = 0
    /\ rec_count = 0
    /\ num_events = -1
    /\ ticks_left = 0
    /\ trace = <<>> /\ win = <<>> /\ cover = <<>>
    /\ slice = <<0, 0>>
    /\ base = 0
    /\ carried = <<0, 0, 0, 0>>
    /\ tally0 = <<0, 0, 0>>
    /\ outcomes = <<>>
    /\ ret = FALSE
    /\ ungated = NoRun
    /\ ScriptsIdle

\* ret = check_induction(ind1_wfs, ind2_wfs, time); slice records the window
\* ind_wfs[early_time:time+1] it reads.
CallCheckInduction ==
    /\ pc = "call"
    /\ ret' = check_induction(ind1_wfs, ind2_wfs, time)
    /\ slice' = <<early_time(time), time + 1>>
    /\ pc' = "returned"
    /\ UNCHANGED <<scripts, ungated, cfg, wfs, ind1_wfs, ind2_wfs, time, prefix,
                   suffix, sums, areas, tally, rec_count, num_events, ticks_left,
                   trace, win, cover, base, carried, tally0, outcomes>>

NextInduction == CallCheckInduction

SpecInduction == InitInduction /\ [][NextInduction]_vars

----------------------------------------------------------------------------
(* The same record scanned twice in one run. *)

\* The first record of the run.
FirstScan == rec_count = 0 /\ StartRecord

\* The record loop takes a second record whose extraction yields the arrays
\* of the first.
Rescan ==
    /\ pc = "record"
    /\ rec_count = 1
    /\ SetSums(InitSums)
    /\ time' = 0
    /\ pc' = "scan"
    /\ rec_count' = rec_count + 1
    /\ trace' = <<>> /\ win' = <<>> /\ cover' = <<>>
    /\ base' = Len(center_areas)
    /\ carried' = sums
    /\ tally0' = tally
    /\ UNCHANGED <<scripts, ungated, ret, cfg, wfs, ind1_wfs, ind2_wfs, prefix, suffix, areas, tally,
                   num_events, ticks_left, slice, outcomes>>

NextTwice ==
    \/ FirstScan
    \/ Rescan
    \/ MuonTick
    \/ OpenWindow
    \/ ContinueWindow
    \/ CloseWindow
    \/ CloseGated
    \/ RejectWindow
    \/ InductionFails
    \/ IdleTick
    \/ EndRecord

SpecTwice == Init /\ [][NextTwice]_vars

----------------------------------------------------------------------------
(* The scan, not run: the state of its variables under the other scripts. *)
ScanIdle ==
    /\ cfg = [prefix |-> PREFIX, suffix |-> SUFFIX, induction |-> FALSE]
    /\ wfs = <<>> /\ ind1_wfs = <<>> /\ ind2_wfs = <<>>
    /\ time = 0
    /\ prefix = cfg.prefix /\ suffix = cfg.suffix
    /\ low_sum = 0 /\ center_sum = 0 /\ high_sum = 0 /\ total_sum = 0
    /\ low_areas = <<>> /\ center_areas = <<>>
    /\ high_areas = <<>> /\ total_areas = <<>>
    /\ mismatch = 0 /\ muon_count = 0 /\ induction_skip = 0
    /\ rec_count = 0
    /\ num_events = -1
    /\ ticks_left = 0
    /\ trace = <<>> /\ win = <<>> /\ cover = <<>>
    /\ slice = <<0, 0>>
    /\ base = 0
    /\ carried = <<0, 0, 0, 0>>
    /\ tally0 = <<0, 0, 0>>
    /\ outcomes = <<>>
    /\ ret = FALSE
    /\ ungated = NoRun

----------------------------------------------------------------------------
(* sum-all/sum_all.py main(): the record loop, one channel of the array. *)

\* What data.extract gives for a record: a ValueError (ok = FALSE), an array
\* with fewer rows than the summed array, or one with as many rows or more.
SumAllArray(n, step) == [k \in 1..n |-> 100 + step * k]

SumAllKinds ==
    {[ok |-> FALSE, adc |-> <<>>],
     [ok |-> TRUE, adc |-> SumAllArray(SumFrames - 1, 0)],
     [ok |-> TRUE, adc |-> SumAllArray(SumFrames, 1)],
     [ok |-> TRUE, adc |-> SumAllArray(SumFrames + 1, 2)]}

\* sum_operator: np.abs with --abs, the identity without
sum_operator(a) == IF sum_all.use_abs THEN [k \in DOMAIN a |-> Abs(a[k])] ELSE a

InitSumAll ==
    /\ ScanIdle
    /\ pc = "sum_all"
    /\ \E recs \in UNION {[1..n -> SumAllKinds] : n \in 0..SumRecords},
          a \in BOOLEAN :
          sum_all = [SumAllIdle EXCEPT !.records = recs, !.use_abs = a,
                        !.adcs = [k \in 1..SumFrames |-> 0]]
    /\ running_sum = RunningSumIdle
    /\ sum_threshold = SumThresholdIdle
    /\ display_cosmic = DisplayCosmicIdle

SumAllOthers == <<scan, running_sum, sum_threshold, display_cosmic>>

\* The try/except of one iteration: tmp_adc is assigned when data.extract
\* returns; when it raises, mismatch += 1 and tmp_adc keeps what it held.
SumAllTry(r) ==
    [sum_all EXCEPT
        !.tmp_adc = IF r.ok THEN r.adc ELSE @,
        !.bound = @ \/ r.ok,
        !.mismatch = IF r.ok THEN @ ELSE @ + 1]

\* One iteration: tmp_adc has the rows, its pedestal-subtracted head is added.
SumAllAdd ==
    /\ pc = "sum_all"
    /\ sum_all.next <= Len(sum_all.records)
    /\ LET t == SumAllTry(sum_all.records[sum_all.next]) IN
          /\ t.bound
          /\ Len(t.tmp_adc) >= Len(t.adcs)
          /\ sum_all' = [t EXCEPT
                !.adcs = VecAdd(@, sum_operator(
                            median_subtraction(Head_n(t.tmp_adc, Len(t.adcs))))),
                !.next = @ + 1]
    /\ UNCHANGED <<pc, SumAllOthers>>

\* One iteration: tmp_adc has too few rows, mismatch += 1.
SumAllShort ==
    /\ pc = "sum_all"
    /\ sum_all.next <= Len(sum_all.records)
    /\ LET t == SumAllTry(sum_all.records[sum_all.next]) IN
          /\ t.bound
          /\ Len(t.tmp_adc) < Len(t.adcs)
          /\ sum_all' = [t EXCEPT !.mismatch = @ + 1, !.next = @ + 1]
    /\ UNCHANGED <<pc, SumAllOthers>>

\* One iteration: data.extract raised and tmp_adc was never assigned, so
\* tmp_adc.shape raises UnboundLocalError, which nothing catches.
SumAllUnbound ==
    /\ pc = "sum_all"
    /\ sum_all.next <= Len(sum_all.records)
    /\ LET t == SumAllTry(sum_all.records[sum_all.next]) IN
          /\ ~t.bound
          /\ sum_all' = t
    /\ pc' = "crash"
    /\ UNCHANGED SumAllOthers

\* After the loop: num_events = len(records) - mismatch.
SumAllFinish ==
    /\ pc = "sum_all"
    /\ sum_all.next > Len(sum_all.records)
    /\ sum_all' = [sum_all EXCEPT
            !.num_events = Len(sum_all.records) - sum_all.mismatch]
    /\ pc' = "sum_all_done"
    /\ UNCHANGED SumAllOthers

NextSumAll ==
    \/ SumAllAdd
    \/ SumAllShort
    \/ SumAllUnbound
    \/ SumAllFinish

SpecSumAll == InitSumAll /\ [][NextSumAll]_vars

----------------------------------------------------------------------------
(* running-sum/running_sum.py main(): the running-sum loop. *)

\* The integer stored when twice/2 is assigned to an element of an integer
\* array: the fraction is cut off, towards zero.
TruncHalf(twice) ==
    IF twice >= 0 THEN twice \div 2 ELSE (-1) * (((-1) * twice) \div 2)

\* wf = median_subtraction(data.extract(record, channel)[:800])
InitRunningSum ==
    /\ ScanIdle
    /\ pc = "running_sum"
    /\ \E raw \in UNION {[1..n -> {100, 101, 103}] : n \in 1..(WfLimit + 1)} :
          LET wf == median_subtraction(Head_n(raw, WfLimit)) IN
          running_sum = [wf |-> wf, original_wf |-> wf, idx |-> 1]
    /\ sum_all = SumAllIdle
    /\ sum_threshold = SumThresholdIdle
    /\ display_cosmic = DisplayCosmicIdle

\* wf[idx] = wf[idx] + wf[idx-1] + 0.5, for idx in range(1, len(wf)): the
\* float on the right is stored into the integer array.
RunningSumStep ==
    /\ pc = "running_sum"
    /\ running_sum.idx < Len(running_sum.wf)
    /\ LET wf == running_sum.wf
           idx == running_sum.idx IN
          running_sum' = [running_sum EXCEPT
              !.wf = [wf EXCEPT ![idx + 1] =
                        TruncHalf(2 * (wf[idx + 1] + wf[idx]) + 1)],
              !.idx = idx + 1]
    /\ UNCHANGED <<pc, scan, sum_all, sum_threshold, display_cosmic>>

\* The range is exhausted: plot(wf, original_wf, ...).
RunningSumPlot ==
    /\ pc = "running_sum"
    /\ running_sum.idx >= Len(running_sum.wf)
    /\ pc' = "running_sum_done"
    /\ UNCHANGED <<scan, scripts>>

NextRunningSum == RunningSumStep \/ RunningSumPlot

SpecRunningSum == InitRunningSum /\ [][NextRunningSum]_vars

----------------------------------------------------------------------------
(* sum-non-cosmics/sum_threshold.py zero_sum_events(): one channel. *)

\* (adcs.T - np.floor(np.median(adcs, axis=1))).T.astype('int'), one channel
pedsub(row) == [k \in DOMAIN row |-> row[k] - MedianFloor(row)]

\* adcs_mask = (LOW_THRESHOLD >= adcs) | (adcs >= HIGH_THRESHOLD). The mask is
\* computed and not used: the two statements that apply it are comments.
adcs_mask(row) ==
    [k \in DOMAIN row |-> LOW_THRESHOLD >= row[k] \/ row[k] >= HIGH_THRESHOLD]

\* sum_operator of zero_sum_events
zero_sum_operator(row) ==
    IF sum_threshold.use_abs THEN [k \in DOMAIN row |-> Abs(row[k])] ELSE row

InitZeroSum ==
    /\ ScanIdle
    /\ pc = "zero_sum"
    /\ \E recs \in UNION {[1..n -> [1..ZeroFrames -> {0, 70, 200}]] :
                            n \in 0..ZeroRecords},
          a \in BOOLEAN :
          sum_threshold = [records |-> recs, use_abs |-> a, idx |-> 0,
                           summed_events |-> [k \in 1..ZeroFrames |-> 0],
                           event_count |-> 0]
    /\ sum_all = SumAllIdle
    /\ running_sum = RunningSumIdle
    /\ display_cosmic = DisplayCosmicIdle

\* One iteration of the record loop: event_count += 1 and the
\* pedestal-subtracted record is added to summed_events.
ZeroSumRecord ==
    /\ pc = "zero_sum"
    /\ sum_threshold.idx < Len(sum_threshold.records)
    /\ LET adcs == pedsub(sum_threshold.records[sum_threshold.idx + 1]) IN
          sum_threshold' = [sum_threshold EXCEPT
              !.event_count = @ + 1,
              !.summed_events = VecAdd(@, zero_sum_operator(adcs)),
              !.idx = @ + 1]
    /\ UNCHANGED <<pc, scan, sum_all, running_sum, display_cosmic>>

\* return summed_events, event_count
ZeroSumReturn ==
    /\ pc = "zero_sum"
    /\ sum_threshold.idx >= Len(sum_threshold.records)
    /\ pc' = "zero_sum_done"
    /\ UNCHANGED <<scan, scripts>>

NextZeroSum == ZeroSumRecord \/ ZeroSumReturn

SpecZeroSum == InitZeroSum /\ [][NextZeroSum]_vars

----------------------------------------------------------------------------
(* display-cosmic/display_cosmic.py main() without --save-all. A record is *)
(* the number of channels check_cosmic counts as hit.                      *)

\* if hits > channel_threshold: return True
check_cosmic(hits) == hits > CHANNEL_THRESHOLD

\* Variant: every cosmic from the n-th on is taken.
IsNthOrLater(cnt, n) == cnt >= n

\* trig_cnt == cosm_order
IsNth(cnt, n) == cnt = n

InitCosmic ==
    /\ ScanIdle
    /\ pc = "cosmic"
    /\ \E recs \in UNION {[1..n -> {CHANNEL_THRESHOLD, CHANNEL_THRESHOLD + 1}] :
                            n \in 0..CosmicRecords},
          c \in (-1)..(CosmicRecords + 1) :
          display_cosmic = [DisplayCosmicIdle EXCEPT
                                !.records = recs, !.cosm_order = c]
    /\ sum_all = SumAllIdle
    /\ running_sum = RunningSumIdle
    /\ sum_threshold = SumThresholdIdle

CosmicOthers == <<scan, sum_all, running_sum, sum_threshold>>

CosmicLoop ==
    /\ pc = "cosmic"
    /\ display_cosmic.trig_id < Len(display_cosmic.records)

CosmicRecord == display_cosmic.records[display_cosmic.trig_id + 1]

\* check_cosmic returns False: the next record.
CosmicSkip ==
    /\ CosmicLoop
    /\ ~check_cosmic(CosmicRecord)
    /\ display_cosmic' = [display_cosmic EXCEPT !.trig_id = @ + 1]
    /\ UNCHANGED <<pc, CosmicOthers>>

\* A cosmic that is not the n-th: trig_cnt += 1, the next record.
CosmicCount ==
    /\ CosmicLoop
    /\ check_cosmic(CosmicRecord)
    /\ ~IsNth(display_cosmic.trig_cnt + 1, display_cosmic.cosm_order)
    /\ display_cosmic' = [display_cosmic EXCEPT
            !.trig_cnt = @ + 1, !.trig_id = @ + 1]
    /\ UNCHANGED <<pc, CosmicOthers>>

\* The n-th cosmic: plot(adcs, run_time, trig_id) and sys.exit(0).
CosmicPlot ==
    /\ CosmicLoop
    /\ check_cosmic(CosmicRecord)
    /\ IsNth(display_cosmic.trig_cnt + 1, display_cosmic.cosm_order)
    /\ display_cosmic' = [display_cosmic EXCEPT
            !.trig_cnt = @ + 1,
            !.plotted = Append(@, display_cosmic.trig_id)]
    /\ pc' = "exit0"
    /\ UNCHANGED CosmicOthers

\* The records are exhausted: sys.exit(1).
CosmicEnd ==
    /\ pc = "cosmic"
    /\ display_cosmic.trig_id >= Len(display_cosmic.records)
    /\ pc' = "exit1"
    /\ UNCHANGED <<scan, scripts>>

NextCosmic ==
    \/ CosmicSkip
    \/ CosmicCount
    \/ CosmicPlot
    \/ CosmicEnd

SpecCosmic == InitCosmic /\ [][NextCosmic]_vars

----------------------------------------------------------------------------
(* A file of one record run without --induction and then with it. *)

InitGate == Init /\ ~cfg.induction

\* main() is started again on the same file, now with --induction: its
\* counters, lists and sums start afresh, the record read is the same, and
\* the induction planes are extracted with the frames of the triplet. What
\* the first run produced is kept in ungated.
RunGated ==
    /\ pc = "record"
    /\ rec_count = 1
    /\ ~cfg.induction
    /\ outcomes = <<"ok">>
    /\ ungated' = [areas |-> areas, muon_count |-> muon_count, trace |-> trace]
    /\ cfg' = [cfg EXCEPT !.induction = TRUE]
    /\ \E ip \in IndPairs(Len(wfs)) \ {<< <<>>, <<>> >>} :
          ind1_wfs' = ip[1] /\ ind2_wfs' = ip[2]
    /\ prefix' = cfg.prefix /\ suffix' = cfg.suffix
    /\ mismatch' = 0 /\ muon_count' = 0 /\ induction_skip' = 0
    /\ low_areas' = <<>> /\ center_areas' = <<>>
    /\ high_areas' = <<>> /\ total_areas' = <<>>
    /\ SetSums(InitSums)
    /\ time' = 0
    /\ pc' = "scan"
    /\ trace' = <<>> /\ win' = <<>> /\ cover' = <<>>
    /\ base' = 0
    /\ carried' = <<0, 0, 0, 0>>
    /\ tally0' = <<0, 0, 0>>
    /\ outcomes' = <<>>
    /\ UNCHANGED <<scripts, ret, wfs, rec_count, num_events, ticks_left, slice>>

NextGate ==
    \/ FirstScan
    \/ RunGated
    \/ MuonTick
    \/ OpenWindow
    \/ ContinueWindow
    \/ CloseWindow
    \/ CloseGated
    \/ RejectWindow
    \/ IdleTick
    \/ EndRecord

SpecGate == InitGate /\ [][NextGate]_vars

----------------------------------------------------------------------------
Next ==
    \/ StartRecord
    \/ ExtractFails
    \/ MuonTick
    \/ OpenWindow
    \/ ContinueWindow
    \/ CloseWindow
    \/ CloseGated
    \/ RejectWindow
    \/ InductionFails
    \/ IdleTick
    \/ EndRecord
    \/ Finish

Spec == Init /\ [][Next]_vars

----------------------------------------------------------------------------
(* Vocabulary of the properties. *)

LowAt(t)    == wfs[t + 1][1]
CenterAt(t) == wfs[t + 1][2]
HighAt(t)   == wfs[t + 1][3]

\* low, center and high all exceed the threshold at tick t
AllActive(t) ==
    LowAt(t) > THRESHOLD /\ CenterAt(t) > THRESHOLD /\ HighAt(t) > THRESHOLD

\* The branch the last tick took ("none" before the first tick of a record).
Branch == IF trace = <<>> THEN "none" ELSE trace[Len(trace)]

\* The branch of the last tick that was not a tick with all channels active.
LastBranch ==
    LET ks == {k \in DOMAIN trace : trace[k] # "muon"}
    IN  IF ks = {} THEN "none" ELSE trace[SetMax(ks)]

\* ACCUMULATING: a window was opened and no close attempt has followed.
Accumulating == pc = "scan" /\ LastBranch \in {"open", "continue"}

\* IDLE: no window is open.
Idle == pc = "scan" /\ ~Accumulating

\* A step of the tick loop, handling tick `time`.
TickStep == pc = "scan" /\ time < Len(wfs) /\ time' = time + 1

\* The sum of channel ch over the ticks lo..hi, both included.
RECURSIVE RangeSum(_, _, _)
RangeSum(ch, lo, hi) ==
    IF lo > hi THEN 0 ELSE wfs[lo + 1][ch + 1] + RangeSum(ch, lo + 1, hi)

RangeSums(lo, hi) ==
    <<RangeSum(0, lo, hi), RangeSum(1, lo, hi), RangeSum(2, lo, hi),
      RangeSum(0, lo, hi) + RangeSum(1, lo, hi) + RangeSum(2, lo, hi)>>

\* The ticks lo..hi in order.
Ticks(lo, hi) == [k \in 1..Max2(hi - lo + 1, 0) |-> lo + k - 1]

Plus(a, b) == <<a[1] + b[1], a[2] + b[2], a[3] + b[3], a[4] + b[4]>>

\* The sum of channel ch over a sequence of ticks ts.
RECURSIVE Total(_, _)
Total(ts, ch) ==
    IF ts = <<>> THEN 0 ELSE wfs[Head(ts) + 1][ch + 1] + Total(Tail(ts), ch)

Totals(ts) ==
    <<Total(ts, 0), Total(ts, 1), Total(ts, 2),
      Total(ts, 0) + Total(ts, 1) + Total(ts, 2)>>

\* The i-th pulse record of the four lists.
Pulse(i) == <<low_areas[i], center_areas[i], high_areas[i], total_areas[i]>>

Closes == {k \in DOMAIN trace : trace[k] = "close"}

----------------------------------------------------------------------------
(* The properties. *)

\* C1: a window is opened at tick t only if center[t] > threshold: from IDLE a
\* center sample equal to the threshold opens nothing and leaves the sums
\* alone, and a center sample of threshold + 1 on a tick where not all three
\* channels are active opens a window.
C1_StrictThresholdOpens ==
    [][TickStep =>
        /\ Branch' = "open" => CenterAt(time) > THRESHOLD
        /\ (Idle /\ CenterAt(time) = THRESHOLD) =>
              (Branch' = "idle" /\ UNCHANGED sums /\ Idle')
        /\ (Idle /\ CenterAt(time) = THRESHOLD + 1 /\ ~AllActive(time)) =>
              (Branch' = "open" /\ Accumulating' /\ time \in {win'[k] : k \in DOMAIN win'})
      ]_vars

\* C1 witness: a tick at the threshold was passed over from IDLE and the next
\* tick, one above the threshold, opened a window.
C1_Witness ==
    /\ pc = "scan" /\ time >= 2
    /\ trace[time] = "open" /\ CenterAt(time - 1) = THRESHOLD + 1
    /\ trace[time - 1] = "idle" /\ CenterAt(time - 2) = THRESHOLD

\* C2 (as claimed): no tick with all three channels active is among the ticks
\* summed into an appended pulse record.
C2_MuonTicksNeverSummed ==
    \A i \in DOMAIN cover : \A k \in DOMAIN cover[i] : ~AllActive(cover[i][k])

\* C3: a tick with all three channels active adds 1 to the muon counter and
\* changes nothing else: sums, window state, pulse lists, the other counters.
C3_MuonTickFrame ==
    [][(TickStep /\ AllActive(time)) =>
        /\ muon_count' = muon_count + 1
        /\ UNCHANGED <<sums, areas, induction_skip, mismatch, prefix, suffix>>
        /\ Accumulating' <=> Accumulating
        /\ Branch' = "muon"
      ]_vars

\* C3 witness: a tick with all channels active was skipped inside an open window.
C3_Witness ==
    /\ pc = "scan" /\ time >= 2
    /\ trace[time] = "muon" /\ AllActive(time - 1)
    /\ trace[time - 1] \in {"open", "continue"}
    /\ center_sum # 0 /\ muon_count >= 1

ScenarioBRun ==
    /\ wfs = ScenarioB
    /\ cfg = [prefix |-> 1, suffix |-> 1, induction |-> FALSE]
    /\ pc = "scan" /\ time = Len(wfs)

ScenarioBTrace ==
    trace = <<"idle", "idle", "open", "continue", "close", "idle", "idle">>

\* C4 (as claimed): scenario B opens at tick 2, continues at tick 3, closes at
\* tick 4 and yields one pulse record with center_sum 290.
C4_ScenarioB_290 ==
    ScenarioBRun => (ScenarioBTrace /\ center_areas = <<290>>)

\* C4 (amended): scenario B opens at tick 2, continues at tick 3, closes at
\* tick 4 and yields one pulse record with center_sum 50+120+130+40 = 340, the
\* sum of ticks 1..4.
C4_ScenarioB_340 ==
    ScenarioBRun =>
        /\ ScenarioBTrace
        /\ center_areas = <<340>>
        /\ cover = << <<1, 2, 3, 4>> >>

\* C4 witness: scenario B has been scanned to its end.
C4_Witness == ScenarioBRun /\ Len(center_areas) = 1

\* C5: an opening at tick t sums exactly the ticks t - min(prefix, t) .. t of
\* each channel, and the slice it takes starts at no index below 0.
C5_PrefixClamp ==
    [][(TickStep /\ Branch' = "open") =>
        LET lo == time - Min2(cfg.prefix, time) IN
        /\ slice' = <<lo, time + 1>>
        /\ slice'[1] >= 0
        /\ sums' = Plus(sums, RangeSums(lo, time))
        /\ win' = win \o Ticks(lo, time)
      ]_vars

\* C5 witness: prefix 5 and a window opened at tick 2, summing ticks 0..2.
C5_Witness ==
    /\ pc = "scan" /\ cfg.prefix = PREFIX /\ wfs = ScenarioClamp
    /\ time = 3 /\ trace[3] = "open"
    /\ win = <<0, 1, 2>> /\ center_sum = 180

\* C6: a close at tick t of a record of N ticks sums exactly the ticks
\* t .. t + min(suffix, N - t) - 1 of each channel into the appended pulse
\* record, and the slice it takes stops at no index above N, with and without
\* the induction gate.
C6_SuffixClamp ==
    [][(TickStep /\ Branch' = "close") =>
        LET n  == Len(wfs)
            hi == time + Min2(cfg.suffix, n - time) IN
        /\ slice' = <<time, hi>>
        /\ slice'[2] <= n
        /\ Len(center_areas') = Len(center_areas) + 1
        /\ <<low_areas'[Len(low_areas')], center_areas'[Len(center_areas')],
             high_areas'[Len(high_areas')], total_areas'[Len(total_areas')]>>
                = Plus(sums, RangeSums(time, hi - 1))
        /\ cover'[Len(cover')] = win \o Ticks(time, hi - 1)
      ]_vars

\* C6 witness: suffix 5, the induction gate on, and a window closed at the last
\* tick of the record.
C6_Witness ==
    /\ pc = "scan" /\ cfg.suffix = SUFFIX /\ cfg.induction
    /\ time = Len(wfs) /\ Branch = "close"
    /\ slice = <<time - 1, time>>

\* C7 (as claimed): with the gate off, a tick with center <= threshold and
\* not all channels active that follows an opened window appends exactly one
\* pulse record.
C7_UngatedCloseAlwaysAccepted ==
    [][(TickStep /\ ~cfg.induction /\ Accumulating /\ ~AllActive(time)
            /\ CenterAt(time) <= THRESHOLD) =>
        /\ Len(center_areas') = Len(center_areas) + 1
        /\ Branch' = "close"
      ]_vars

\* C8 (as claimed): in an open window a tick with center > threshold and not
\* all channels active adds exactly its own three samples to the sums; the
\* prefix range is not summed again.
C8_ContinueAddsOneTick ==
    [][(TickStep /\ Accumulating /\ ~AllActive(time)
            /\ CenterAt(time) > THRESHOLD) =>
        /\ sums' = Plus(sums, RangeSums(time, time))
        /\ win' = Append(win, time)
      ]_vars

\* C9: at most one pulse record per run of ticks with center > threshold: each
\* pulse record of this record was appended at a close tick with center <=
\* threshold, and between that tick and the close before it (or the start of
\* the record) some tick with center > threshold opened a window.
C9_OnePulsePerRun ==
    pc = "scan" =>
        /\ Len(center_areas) - base = Cardinality(Closes)
        /\ \A k2 \in Closes :
              /\ CenterAt(k2 - 1) <= THRESHOLD
              /\ \E k \in 1..(k2 - 1) :
                    /\ trace[k] = "open"
                    /\ CenterAt(k - 1) > THRESHOLD
                    /\ \A j \in k..k2 - 1 : trace[j] # "close"

\* C9 witness: two pulse records were appended in one record.
C9_Witness == pc = "scan" /\ Cardinality(Closes) = 2

\* C10: a window still open when the ticks run out is dropped: leaving the
\* record appends nothing and counts nothing, the next record starts from zero
\* sums, and every pulse record appended in a record is the sum of ticks of
\* that record alone; center = [50,150,150,150] appends nothing.
C10_TailDiscarded ==
    /\ [][(pc = "scan" /\ time = Len(wfs) /\ pc' # "scan") =>
            UNCHANGED <<areas, tally>>]_vars
    /\ [][(pc = "record" /\ pc' = "scan") =>
            (sums' = <<0, 0, 0, 0>> /\ UNCHANGED <<areas, tally>>)]_vars
    /\ [](pc = "scan" =>
            /\ sums = Totals(win)
            /\ Len(cover) = Len(center_areas) - base
            /\ \A i \in DOMAIN cover : Pulse(base + i) = Totals(cover[i]))
    /\ []((wfs = ScenarioTail /\ pc = "scan" /\ time = Len(wfs)) =>
            /\ Accumulating
            /\ areas = <<<<>>, <<>>, <<>>, <<>>>>
            /\ tally = <<0, 0, 0>>)

\* C10 witness: the record before this one ended inside a window, and this
\* record has appended a pulse record.
C10_Witness ==
    /\ pc = "scan" /\ rec_count >= 2
    /\ carried[2] # 0
    /\ cover # <<>>

\* The samples of plane w in the frames lo..hi, both included, all channels.
Window(w, lo, hi) == {w[k + 1][c] : k \in lo..hi, c \in 1..3}

\* The first tick of the backward window that ends at tick t.
WindowStart(t) == IF t - INDUCTION_WINDOW > 0 THEN t - INDUCTION_WINDOW ELSE 0

\* The coincidence as the contract states it.
Coincide(t) ==
    /\ \E x \in Window(ind1_wfs, WindowStart(t), t) : x > INDUCTION_THRESHOLD
    /\ \E y \in Window(ind2_wfs, WindowStart(t), t) : y < (-1) * INDUCTION_THRESHOLD

\* C11: check_induction(ind_a, ind_b, t) is true iff some sample of ind_a in
\* the ticks max(0, t - INDUCTION_WINDOW)..t is > INDUCTION_THRESHOLD and some
\* sample of ind_b there is < -INDUCTION_THRESHOLD; the window it reads starts
\* at no index below 0 and ends with tick t; the inputs are left as they were.
C11_CheckInductionContract ==
    /\ [](pc = "returned" =>
            /\ ret = Coincide(time)
            /\ slice = <<WindowStart(time), time + 1>>
            /\ slice[1] >= 0)
    /\ [][pc = "call" => UNCHANGED <<ind1_wfs, ind2_wfs, time>>]_vars

\* C11 witness: the call returned true with the only active sample of ind_a on
\* the first tick of a window that does not start at tick 0.
C11_Witness ==
    /\ pc = "returned" /\ ret
    /\ time > INDUCTION_WINDOW
    /\ \E c \in 1..3 :
          ind1_wfs[time - INDUCTION_WINDOW + 1][c] = INDUCTION_THRESHOLD + 1

\* A close attempt as the design states it: the scan is ACCUMULATING and the
\* tick has center <= threshold and not all channels active.
CloseAttempt ==
    /\ pc = "scan" /\ time < Len(wfs)
    /\ Accumulating
    /\ ~AllActive(time)
    /\ CenterAt(time) <= THRESHOLD

\* C12 (as claimed): with the gate on, a close attempt at tick t appends one
\* pulse record and counts no rejection when the induction planes coincide at
\* t, and appends nothing and adds 1 to the rejected counter when they do not.
C12_GateDecidesClose ==
    [][(TickStep /\ CloseAttempt /\ cfg.induction
            /\ Len(ind1_wfs) = Len(wfs) /\ Len(ind2_wfs) = Len(wfs)) =>
        IF Coincide(time)
        THEN /\ Len(center_areas') = Len(center_areas) + 1
             /\ induction_skip' = induction_skip
        ELSE /\ UNCHANGED areas
             /\ induction_skip' = induction_skip + 1
      ]_vars

\* C13 (as claimed): after a close attempt, accepted or rejected, the four
\* sums are zero and the scan is IDLE; a rejected window appends nothing.
C13_CloseAttemptResets ==
    [][(TickStep /\ CloseAttempt) =>
        /\ sums' = <<0, 0, 0, 0>>
        /\ Idle'
        /\ Branch' = "reject" => UNCHANGED areas
      ]_vars

ActiveTicks == {t \in 0..(Len(wfs) - 1) : AllActive(t)}

\* C14: a record in which every tick with center > threshold has all three
\* channels active appends no pulse record and adds to the muon counter the
\* number of those ticks; scenario A appends nothing and counts 2.
C14_AllMuonRecord ==
    (/\ pc = "scan" /\ time = Len(wfs)
     /\ \A t \in 0..(Len(wfs) - 1) : CenterAt(t) > THRESHOLD => AllActive(t)) =>
        /\ Len(center_areas) = base
        /\ Len(low_areas) = base /\ Len(high_areas) = base /\ Len(total_areas) = base
        /\ muon_count = tally0[2] + Cardinality(ActiveTicks)
        /\ wfs = ScenarioA => (center_areas = <<>> /\ muon_count = 2)

\* C14 witness: scenario A scanned to its end.
C14_Witness ==
    /\ pc = "scan" /\ wfs = ScenarioA /\ time = Len(wfs)
    /\ trace[4] = "muon" /\ trace[5] = "muon"

\* C15 (as claimed): when a record is tallied as a mismatch, the pulse lists,
\* the muon counter and the induction-rejected counter are as they were when
\* the record began.
C15_MismatchLeavesOutputs ==
    [][mismatch' = mismatch + 1 =>
        IF pc = "scan"
        THEN /\ Len(center_areas') = base /\ Len(low_areas') = base
             /\ Len(high_areas') = base /\ Len(total_areas') = base
             /\ muon_count' = tally0[2]
             /\ induction_skip' = tally0[3]
        ELSE UNCHANGED <<areas, muon_count, induction_skip>>
      ]_vars

Count(seq, x) == Cardinality({k \in DOMAIN seq : seq[k] = x})

\* C16: a ValueError costs one record and nothing more: it adds 1 to mismatch
\* and returns to the head of the record loop, where the next record of the
\* file is taken; mismatch is the number of records that failed, and the
\* event count is len(records) - mismatch, the number of records scanned.
C16_FailureDoesNotAbort ==
    /\ [][mismatch' # mismatch =>
            (mismatch' = mismatch + 1 /\ pc' = "record")]_vars
    /\ [](mismatch = Count(outcomes, "fail"))
    /\ []((pc = "record" /\ ticks_left >= 1) => ENABLED StartRecord)
    /\ [](pc = "done" =>
            /\ Len(outcomes) = rec_count
            /\ num_events = rec_count - mismatch
            /\ num_events = Count(outcomes, "ok"))

\* C16 witness: the run ended after a record that failed and a later record
\* that was scanned to its end.
C16_Witness ==
    /\ pc = "done"
    /\ \E i, j \in DOMAIN outcomes :
          i < j /\ outcomes[i] = "fail" /\ outcomes[j] = "ok"
    /\ center_areas # <<>>

\* C17 (as claimed): with induction planes whose length differs from the
\* triplet's, no pulse record is appended and neither the muon nor the
\* induction-rejected counter changes.
C17_MalformedFailsFast ==
    (/\ pc = "scan" /\ cfg.induction
     /\ (Len(ind1_wfs) # Len(wfs) \/ Len(ind2_wfs) # Len(wfs))) =>
        /\ Len(center_areas) = base
        /\ muon_count = tally0[2]
        /\ induction_skip = tally0[3]

\* The sums and the pulse records that the first n ticks of this record give
\* when scanned from zero sums with the configured prefix and suffix.
RECURSIVE Alone(_)
Alone(n) ==
    IF n = 0 THEN [s |-> <<0, 0, 0, 0>>, out |-> <<>>]
    ELSE
        LET q == Alone(n - 1)
            t == n - 1
            lo == t - Min2(cfg.prefix, t)
            hi == t + Min2(cfg.suffix, Len(wfs) - t) - 1
        IN  IF AllActive(t) THEN q
            ELSE IF CenterAt(t) > THRESHOLD
                THEN IF q.s[2] = 0
                     THEN [q EXCEPT !.s = Plus(q.s, RangeSums(lo, t))]
                     ELSE [q EXCEPT !.s = Plus(q.s, RangeSums(t, t))]
            ELSE IF q.s[2] = 0 THEN q
            ELSE IF cfg.induction /\ ~Coincide(t)
                THEN [q EXCEPT !.s = <<0, 0, 0, 0>>]
            ELSE [s |-> <<0, 0, 0, 0>>,
                  out |-> Append(q.out, Plus(q.s, RangeSums(t, hi)))]

\* The pulse records appended in this record.
PulsesHere == [i \in 1..(Len(center_areas) - base) |-> Pulse(base + i)]

\* C18: every record starts from zero sums and the configured prefix and
\* suffix, and the sums and pulse records of a record are those its own
\* samples give, whatever the record before it left behind.
C18_StatelessBetweenRecords ==
    pc = "scan" =>
        /\ time = 0 =>
              (sums = <<0, 0, 0, 0>> /\ prefix = cfg.prefix /\ suffix = cfg.suffix)
        /\ sums = Alone(time).s
        /\ PulsesHere = Alone(time).out

\* C18 witness: a record begins after one that was cut short by a ValueError
\* inside an open window.
C18_Witness ==
    /\ pc = "scan" /\ time = 0
    /\ carried[2] # 0
    /\ outcomes # <<>> /\ outcomes[Len(outcomes)] = "fail"

\* C19: prefix and suffix hold their configured values between ticks, so a
\* window opened after a clamped one sums its full prefix and a close after a
\* clamped one its full suffix.
C19_ClampRestored ==
    /\ [](prefix = cfg.prefix /\ suffix = cfg.suffix)
    /\ [][(TickStep /\ Branch' = "open") =>
            slice'[2] - slice'[1] = Min2(cfg.prefix, time) + 1]_vars
    /\ [][(TickStep /\ Branch' = "close") =>
            slice'[2] - slice'[1] = Min2(cfg.suffix, Len(wfs) - time)]_vars

\* C19 witness: prefix 1, a window opened at tick 0 (prefix clamped to 0),
\* closed, and a second window opened at tick 2 with the prefix tick 1.
C19_Witness ==
    /\ pc = "scan" /\ cfg.prefix = 1
    /\ trace = <<"open", "close", "open">>
    /\ slice = <<1, 3>>

\* C20: a record scanned twice in one run appends the same pulse records and
\* adds the same amounts to the muon, induction-rejected and mismatch
\* counters the second time as the first.
C20_SameInputSameResult ==
    (pc = "record" /\ rec_count = 2) =>
        /\ Len(center_areas) = 2 * base
        /\ \A i \in 1..base : Pulse(i) = Pulse(base + i)
        /\ tally = <<2 * tally0[1], 2 * tally0[2], 2 * tally0[3]>>
        /\ Len(outcomes) = 2 /\ outcomes[1] = outcomes[2]

\* C20 witness: the second scan of a record has ended and each scan appended
\* a pulse record and skipped a tick with all channels active.
C20_Witness ==
    /\ pc = "record" /\ rec_count = 2
    /\ base >= 1 /\ Len(center_areas) = 2 * base
    /\ tally0[2] >= 1

\* C21: total_sum = low_sum + center_sum + high_sum in every state of the
\* scan, and every appended pulse record has total = low + center + high.
C21_TotalIsSum ==
    /\ total_sum = low_sum + center_sum + high_sum
    /\ Len(total_areas) = Len(center_areas)
    /\ \A i \in DOMAIN total_areas :
          total_areas[i] = low_areas[i] + center_areas[i] + high_areas[i]

\* C21 witness: a pulse record with nonzero low and high sums has been
\* appended and a later window, again with nonzero low and high sums, is open.
C21_Witness ==
    /\ pc = "scan" /\ Branch = "open"
    /\ low_sum # 0 /\ high_sum # 0 /\ total_sum # center_sum
    /\ center_areas # <<>>
    /\ low_areas[1] # 0 /\ high_areas[1] # 0

\* The tick position (1-based, in trace) of the i-th close of this record.
NthClose(i) ==
    CHOOSE k \in Closes : Cardinality({j \in Closes : j < k}) = i - 1

\* C22: a pulse record is appended at the end of the four lists by the tick
\* that closes its window, that tick being later than every closing tick the
\* record has had; entries already in the lists, those of earlier records
\* included, are never changed or removed.
C22_DetectionOrder ==
    /\ [][\A c \in 1..4 :
            /\ Len(areas[c]') >= Len(areas[c])
            /\ SubSeq(areas[c]', 1, Len(areas[c])) = areas[c]]_vars
    /\ [][Len(center_areas') # Len(center_areas) =>
            /\ TickStep
            /\ Len(center_areas') = Len(center_areas) + 1
            /\ \A k \in Closes : k - 1 < time
            /\ Closes' = Closes \cup {time + 1}]_vars
    /\ [](pc = "scan" =>
            /\ base <= Len(center_areas)
            /\ Cardinality(Closes) = Len(center_areas) - base
            /\ Len(cover) = Cardinality(Closes)
            /\ \A i \in DOMAIN cover :
                  /\ Pulse(base + i) = Totals(cover[i])
                  /\ \E k \in DOMAIN cover[i] : cover[i][k] = NthClose(i) - 1)

\* C22 witness: a record has appended two different pulse records.
C22_Witness ==
    /\ pc = "scan" /\ Len(cover) = 2
    /\ Pulse(base + 1) # Pulse(base + 2)

\* The induction planes, when read, have the frames of the triplet.
Complete ==
    ~cfg.induction \/ (Len(ind1_wfs) = Len(wfs) /\ Len(ind2_wfs) = Len(wfs))

\* C23: the scan of a complete triplet of N ticks handles tick 0, then 1, ...
\* then N - 1, each once: every step of the scan moves from tick t to t + 1,
\* a close included, the scan is left only at t = N, and N - t decreases with
\* every step, so the scan ends.
C23_OnePassInOrder ==
    /\ [](pc = "scan" => (Len(trace) = time /\ time <= Len(wfs)))
    /\ []((pc = "scan" /\ Complete) => ENABLED NextGate)
    /\ [][(pc = "scan" /\ Complete) =>
            IF time < Len(wfs)
            THEN pc' = "scan" /\ time' = time + 1
                    /\ Len(wfs') - time' < Len(wfs) - time
            ELSE pc' = "record" /\ time' = time]_vars

\* C23 witness: a record scanned to its end in which a close whose slice
\* reached past the closing tick was followed by further ticks.
C23_Witness ==
    /\ pc = "scan" /\ time = Len(wfs)
    /\ \E k \in Closes : k + 1 < Len(trace)
    /\ cfg.suffix = SUFFIX

\* The tick position (1-based) of the i-th close of the ungated run.
UngatedClose(i) ==
    LET cs == {k \in DOMAIN ungated.trace : ungated.trace[k] = "close"}
    IN  CHOOSE k \in cs : Cardinality({j \in cs : j < k}) = i - 1

UngatedPulse(i) ==
    <<ungated.areas[1][i], ungated.areas[2][i], ungated.areas[3][i],
      ungated.areas[4][i]>>

\* The first i pulse records of the ungated run, without those whose closing
\* tick has no coincidence on the induction planes.
RECURSIVE Gated(_)
Gated(i) ==
    IF i = 0 THEN <<>>
    ELSE IF Coincide(UngatedClose(i) - 1)
        THEN Append(Gated(i - 1), UngatedPulse(i))
        ELSE Gated(i - 1)

\* C24: run on the same record, the gated scan appends the pulse records of
\* the ungated scan whose closing tick has a coincidence, in the same order
\* and with the same sums; it counts the same ticks as muons, and its
\* rejected counter is the number of pulse records left out.
C24_GateOnlyFilters ==
    (pc = "record" /\ cfg.induction /\ outcomes = <<"ok">>) =>
        LET n == Len(ungated.areas[2]) IN
        /\ [i \in 1..Len(center_areas) |-> Pulse(i)] = Gated(n)
        /\ muon_count = ungated.muon_count
        /\ induction_skip = n - Len(center_areas)
        /\ mismatch = 0

\* C24 witness: the gated run has ended having kept one pulse record of the
\* ungated run and rejected another.
C24_Witness ==
    /\ pc = "record" /\ cfg.induction /\ outcomes = <<"ok">>
    /\ Len(center_areas) >= 1
    /\ induction_skip >= 1
    /\ Len(ungated.areas[2]) = Len(center_areas) + induction_skip

\* What record i of sum_all adds to the summed array when it is summed.
SumAllPart(i) ==
    sum_operator(median_subtraction(
        Head_n(sum_all.records[i].adc, Len(sum_all.adcs))))

\* C25 (as claimed): an iteration of sum_all's record loop handles its own
\* record and no other: a record whose extraction raises ValueError, or whose
\* array is too short, adds nothing to the summed array and adds 1 to
\* mismatch; any other record is added and leaves mismatch alone; at the end
\* num_events is the number of records summed.
C25_EachRecordOnce ==
    /\ [][(pc = "sum_all" /\ sum_all'.next = sum_all.next + 1) =>
            LET i == sum_all.next
                r == sum_all.records[i] IN
            IF r.ok /\ Len(r.adc) >= Len(sum_all.adcs)
            THEN /\ sum_all'.adcs = VecAdd(sum_all.adcs, SumAllPart(i))
                 /\ sum_all'.mismatch = sum_all.mismatch
            ELSE /\ sum_all'.adcs = sum_all.adcs
                 /\ sum_all'.mismatch = sum_all.mismatch + 1]_vars
    /\ [](pc = "sum_all_done" =>
            sum_all.num_events =
                Cardinality({i \in DOMAIN sum_all.records :
                    /\ sum_all.records[i].ok
                    /\ Len(sum_all.records[i].adc) >= Len(sum_all.adcs)}))

\* The ticks summed into the i-th pulse record of this record.
TicksOf(i) == {cover[i][k] : k \in DOMAIN cover[i]}

\* C26 (as claimed): the ticks summed into two different pulse records of one
\* record are disjoint.
C26_PulsesDisjoint ==
    \A i, j \in DOMAIN cover : i # j => TicksOf(i) \cap TicksOf(j) = {}

\* C27: the four lists have the same length, entry i of each is the sum of
\* its channel over one and the same window, and without the induction gate
\* the rejected counter stays 0.
C27_ListsInStep ==
    /\ Len(low_areas) = Len(center_areas)
    /\ Len(high_areas) = Len(center_areas)
    /\ Len(total_areas) = Len(center_areas)
    /\ ~cfg.induction => induction_skip = 0
    /\ pc = "scan" =>
          \A i \in DOMAIN cover :
              /\ low_areas[base + i] = Total(cover[i], 0)
              /\ center_areas[base + i] = Total(cover[i], 1)
              /\ high_areas[base + i] = Total(cover[i], 2)

\* C27 witness: without the gate, a second record has appended a pulse record
\* after the one of the first record.
C27_Witness ==
    /\ pc = "scan" /\ ~cfg.induction
    /\ base >= 1 /\ Len(center_areas) > base
    /\ induction_skip = 0

\* The sum of the first i entries of a sequence.
RECURSIVE PartialSum(_, _)
PartialSum(seq, i) == IF i = 0 THEN 0 ELSE seq[i] + PartialSum(seq, i - 1)

\* C28 (as claimed): after the loop wf[i] is the sum of the original samples
\* 0..i, for every i.
C28_RunningSumExact ==
    pc = "running_sum_done" =>
        \A i \in DOMAIN running_sum.wf :
            running_sum.wf[i] = PartialSum(running_sum.original_wf, i)

\* What a pedestal-subtracted sample is to contribute: itself (or its
\* absolute value) inside [LOW_THRESHOLD, HIGH_THRESHOLD], 0 outside.
Zeroed(v) ==
    IF LOW_THRESHOLD <= v /\ v <= HIGH_THRESHOLD
    THEN (IF sum_threshold.use_abs THEN Abs(v) ELSE v)
    ELSE 0

\* C29 (as claimed): each record adds to summed_events, sample by sample, the
\* pedestal-subtracted value if it lies in [LOW_THRESHOLD, HIGH_THRESHOLD]
\* and 0 if it does not.
C29_OutOfRangeZeroed ==
    [][(pc = "zero_sum" /\ sum_threshold'.idx = sum_threshold.idx + 1) =>
        LET raw == sum_threshold.records[sum_threshold.idx + 1] IN
        \A k \in DOMAIN raw :
            sum_threshold'.summed_events[k] =
                sum_threshold.summed_events[k]
                    + Zeroed(raw[k] - MedianFloor(raw))
      ]_vars

\* The records (0-based, in file order) for which check_cosmic is true.
Cosmics ==
    {i \in 0..(Len(display_cosmic.records) - 1) :
        display_cosmic.records[i + 1] > CHANNEL_THRESHOLD}

\* C30: with -c n, exit status 0 comes with exactly one plot, that of the n-th
\* cosmic record in file order, made when the scan reaches it; exit status 1
\* comes with no plot, after every record was examined, when fewer than n
\* records are cosmic or n < 1; nothing is plotted before either exit.
C30_NthCosmicOnly ==
    LET n == display_cosmic.cosm_order
        d == display_cosmic IN
    /\ pc = "cosmic" => d.plotted = <<>>
    /\ pc = "exit0" =>
          /\ n >= 1
          /\ Len(d.plotted) = 1
          /\ d.plotted[1] \in Cosmics
          /\ Cardinality({i \in Cosmics : i <= d.plotted[1]}) = n
          /\ d.trig_id = d.plotted[1]
    /\ pc = "exit1" =>
          /\ d.plotted = <<>>
          /\ d.trig_id = Len(d.records)
          /\ (Cardinality(Cosmics) < n \/ n < 1)

\* C30 witness: -c 2 and the second cosmic, the third record of the file, has
\* been plotted.
C30_Witness ==
    /\ pc = "exit0"
    /\ display_cosmic.cosm_order = 2
    /\ display_cosmic.plotted = <<2>>
    /\ ~(1 \in Cosmics)

====
